---- MODULE Spec2Model ----
(***************************************************************************)
(* Model of polynomial_solver.js (src/PolynomialSolver.js): the base-N     *)
(* digit decoder decodeBigInt, the coefficient synthesis                   *)
(* buildPolynomialFromRoots, the per-case handler processSingleTestCase    *)
(* and the batch loop of main.                                             *)
(*                                                                         *)
(* A JavaScript string is a sequence of characters, a character a          *)
(* one-element TLA+ string; the Kelvin sign U+212A, which has no ASCII     *)
(* spelling, is the token "U+212A".  A BigInt is an Int.                   *)
(***************************************************************************)
EXTENDS Integers, Sequences, FiniteSets

VARIABLES
  baseStr, valueStr, decoded, decPc,      \* decodeBigInt: arguments, outcome, position
  roots, roots0, coeffs, rootIdx, polyPc, \* buildPolynomialFromRoots: argument, its value at the call, loop state
  tc, caseOut, casePc,                    \* processSingleTestCase: argument, outcome, position
  tests, i, out, attempted, mainPc        \* main: doc.testcases, loop index, output document, cases tried

vars == <<baseStr, valueStr, decoded, decPc, roots, roots0, coeffs, rootIdx, polyPc,
          tc, caseOut, casePc, tests, i, out, attempted, mainPc>>

decVars  == <<baseStr, valueStr, decoded, decPc>>
polyVars == <<roots, roots0, coeffs, rootIdx, polyPc>>
caseVars == <<tc, caseOut, casePc>>
mainVars == <<tests, i, out, attempted, mainPc>>

-----------------------------------------------------------------------------
(* Bounds of the model *)

MaxLen == 3        \* longest digit string drawn as an input
MaxRoots == 3      \* longest root list drawn as an input
MaxN == 2          \* largest keys.n, and the number of entry slots of a test case
MaxK == 3          \* largest keys.k
MaxTests == 2      \* longest doc.testcases drawn as an input

-----------------------------------------------------------------------------
(* Characters and strings *)

KELVIN == "U+212A"

DecimalDigits == <<"0", "1", "2", "3", "4", "5", "6", "7", "8", "9">>

LowerLetters == <<"a", "b", "c", "d", "e", "f", "g", "h", "i", "j", "k", "l", "m",
                  "n", "o", "p", "q", "r", "s", "t", "u", "v", "w", "x", "y", "z">>

UpperLetters == <<"A", "B", "C", "D", "E", "F", "G", "H", "I", "J", "K", "L", "M",
                  "N", "O", "P", "Q", "R", "S", "T", "U", "V", "W", "X", "Y", "Z">>

Range(s) == {s[x] : x \in DOMAIN s}

IndexOf(s, ch) == CHOOSE x \in DOMAIN s : s[x] = ch

IsWhiteSpace(ch) == ch = " "

\* String.prototype.toLowerCase on one character: A-Z map to a-z, and the
\* Kelvin sign U+212A maps to "k" (Unicode default case conversion).
ToLowerChar(ch) ==
  IF ch \in Range(UpperLetters) THEN LowerLetters[IndexOf(UpperLetters, ch)]
  ELSE IF ch = KELVIN THEN "k"
  ELSE ch

ToLowerCase(s) == [x \in DOMAIN s |-> ToLowerChar(s[x])]

RECURSIVE TrimStart(_)
TrimStart(s) ==
  IF s # <<>> /\ IsWhiteSpace(Head(s)) THEN TrimStart(Tail(s)) ELSE s

RECURSIVE TrimEnd(_)
TrimEnd(s) ==
  IF s # <<>> /\ IsWhiteSpace(s[Len(s)]) THEN TrimEnd(SubSeq(s, 1, Len(s) - 1)) ELSE s

Trim(s) == TrimEnd(TrimStart(s))

RECURSIVE SeqsUpTo(_, _)
SeqsUpTo(S, n) ==
  IF n = 0 THEN {<<>>}
  ELSE LET shorter == SeqsUpTo(S, n - 1)
       IN  shorter \cup {Append(s, x) : s \in {t \in shorter : Len(t) = n - 1}, x \in S}

-----------------------------------------------------------------------------
(* Outcomes: a returned value or a thrown Error *)

Returned(v) == [ok |-> TRUE, err |-> "", val |-> v]
Thrown(e)   == [ok |-> FALSE, err |-> e, val |-> 0]

-----------------------------------------------------------------------------
(* parseInt(string, 10) *)

NaN == [nan |-> TRUE, val |-> 0]
Num(v) == [nan |-> FALSE, val |-> v]

RECURSIVE DecimalPrefix(_)
DecimalPrefix(s) ==
  IF s # <<>> /\ Head(s) \in Range(DecimalDigits)
  THEN <<Head(s)>> \o DecimalPrefix(Tail(s))
  ELSE <<>>

RECURSIVE DecimalValue(_)
DecimalValue(s) ==
  IF s = <<>> THEN 0
  ELSE DecimalValue(SubSeq(s, 1, Len(s) - 1)) * 10 + (IndexOf(DecimalDigits, s[Len(s)]) - 1)

ParseInt10(str) ==
  LET S      == TrimStart(str)
      signed == S # <<>> /\ Head(S) \in {"+", "-"}
      sign   == IF S # <<>> /\ Head(S) = "-" THEN -1 ELSE 1
      rest   == IF signed THEN Tail(S) ELSE S
      Z      == DecimalPrefix(rest)
  IN  IF Z = <<>> THEN NaN ELSE Num(sign * DecimalValue(Z))

-----------------------------------------------------------------------------
(* charToDigit and decodeBigInt *)

MinBase == 2
MaxBase == 36

charToDigit(c) ==
  LET ch == ToLowerChar(c)
  IN  IF ch \in Range(DecimalDigits) THEN Returned(IndexOf(DecimalDigits, ch) - 1)
      ELSE IF ch \in Range(LowerLetters) THEN Returned(10 + (IndexOf(LowerLetters, ch) - 1))
      ELSE Thrown("InvalidDigitChar")

\* Mutant: the accumulator is scaled by ten instead of by the base.
RECURSIVE AccumulateDecimal(_, _, _, _)
AccumulateDecimal(s, x, base, acc) ==
  IF x > Len(s) THEN Returned(acc)
  ELSE LET d == charToDigit(s[x])
       IN  IF ~d.ok THEN d
           ELSE IF d.val >= base THEN Thrown("DigitOutOfRange")
           ELSE AccumulateDecimal(s, x + 1, base, acc * 10 + d.val)

\* The for loop of decodeBigInt from position x with accumulator acc.
RECURSIVE Accumulate(_, _, _, _)
Accumulate(s, x, base, acc) ==
  IF x > Len(s) THEN Returned(acc)
  ELSE LET d == charToDigit(s[x])
       IN  IF ~d.ok THEN d
           ELSE IF d.val >= base THEN Thrown("DigitOutOfRange")
           ELSE Accumulate(s, x + 1, base, acc * base + d.val)

\* Mutant: the sign is stripped but never applied.
decodeBigIntUnsigned(bStr, vStr) ==
  LET baseInt == ParseInt10(bStr)
  IN  IF baseInt.nan \/ baseInt.val < MinBase \/ baseInt.val > MaxBase
      THEN Thrown("InvalidBase")
      ELSE LET s0 == ToLowerCase(Trim(vStr))
           IN  IF Len(s0) = 0 THEN Thrown("EmptyValue")
               ELSE LET signed == s0[1] \in {"+", "-"}
                        s      == IF signed THEN Tail(s0) ELSE s0
                    IN  IF signed /\ Len(s) = 0 THEN Thrown("OnlySign")
                        ELSE Accumulate(s, 1, baseInt.val, 0)

decodeBigInt(bStr, vStr) ==
  LET baseInt == ParseInt10(bStr)
  IN  IF baseInt.nan \/ baseInt.val < MinBase \/ baseInt.val > MaxBase
      THEN Thrown("InvalidBase")
      ELSE LET s0 == ToLowerCase(Trim(vStr))
           IN  IF Len(s0) = 0 THEN Thrown("EmptyValue")
               ELSE LET signed   == s0[1] \in {"+", "-"}
                        negative == s0[1] = "-"
                        s        == IF signed THEN Tail(s0) ELSE s0
                    IN  IF signed /\ Len(s) = 0 THEN Thrown("OnlySign")
                        ELSE LET r == Accumulate(s, 1, baseInt.val, 0)
                             IN  IF ~r.ok THEN r
                                 ELSE Returned(IF negative THEN -r.val ELSE r.val)

-----------------------------------------------------------------------------
(* buildPolynomialFromRoots *)

Zeros(n) == [x \in 1..n |-> 0]

\* Mutant: the shift term newCoeffs[i + 1] += coeffs[i] is lost.
RECURSIVE ExpandIntoNoShift(_, _, _, _)
ExpandIntoNoShift(cs, r, newCoeffs, x) ==
  IF x >= Len(cs) THEN newCoeffs
  ELSE LET scaled == [newCoeffs EXCEPT ![x + 1] = @ + (-r) * cs[x + 1]]
       IN  ExpandIntoNoShift(cs, r, scaled, x + 1)

\* Mutant: both updates assign (=) where the code accumulates (+=).
RECURSIVE ExpandIntoAssign(_, _, _, _)
ExpandIntoAssign(cs, r, newCoeffs, x) ==
  IF x >= Len(cs) THEN newCoeffs
  ELSE LET scaled  == [newCoeffs EXCEPT ![x + 1] = (-r) * cs[x + 1]]
           shifted == [scaled EXCEPT ![x + 2] = cs[x + 1]]
       IN  ExpandIntoAssign(cs, r, shifted, x + 1)

\* Mutant: the factor is (x + r) instead of (x - r).
RECURSIVE ExpandIntoPlus(_, _, _, _)
ExpandIntoPlus(cs, r, newCoeffs, x) ==
  IF x >= Len(cs) THEN newCoeffs
  ELSE LET scaled  == [newCoeffs EXCEPT ![x + 1] = @ + r * cs[x + 1]]
           shifted == [scaled EXCEPT ![x + 2] = @ + cs[x + 1]]
       IN  ExpandIntoPlus(cs, r, shifted, x + 1)

\* The inner for loop (lines 47-51) from 0-based index x; position x of the
\* JavaScript array is element x + 1 of the sequence.
RECURSIVE ExpandInto(_, _, _, _)
ExpandInto(cs, r, newCoeffs, x) ==
  IF x >= Len(cs) THEN newCoeffs
  ELSE LET scaled  == [newCoeffs EXCEPT ![x + 1] = @ + (-r) * cs[x + 1]]
           shifted == [scaled EXCEPT ![x + 2] = @ + cs[x + 1]]
       IN  ExpandInto(cs, r, shifted, x + 1)

\* One pass of the outer loop body (lines 46-52): coeffs times (x - r).
MultiplyByFactor(cs, r) == ExpandInto(cs, r, Zeros(Len(cs) + 1), 0)

RECURSIVE ExpandAll(_, _, _)
ExpandAll(rs, x, cs) ==
  IF x > Len(rs) THEN cs ELSE ExpandAll(rs, x + 1, MultiplyByFactor(cs, rs[x]))

buildPolynomialFromRoots(rs) == ExpandAll(rs, 1, <<1>>)

-----------------------------------------------------------------------------
(* JavaScript values and array helpers used by processSingleTestCase *)

Undefined == [type |-> "undefined", num |-> 0]
JSNum(v)  == [type |-> "number", num |-> v]

Min(a, b) == IF a < b THEN a ELSE b
Max(a, b) == IF a > b THEN a ELSE b

\* Array.prototype.slice(start, end) with integer arguments.
Slice(arr, start, end) ==
  LET len  == Len(arr)
      from == IF start < 0 THEN Max(len + start, 0) ELSE Min(start, len)
      to   == IF end < 0 THEN Max(len + end, 0) ELSE Min(end, len)
  IN  SubSeq(arr, from + 1, to)

Reverse(s) == [x \in DOMAIN s |-> s[Len(s) + 1 - x]]

\* BigInt.prototype.toString(): decimal text, "-" before a negative value.
RECURSIVE NatToString(_)
NatToString(v) ==
  IF v < 10 THEN <<DecimalDigits[v + 1]>>
  ELSE Append(NatToString(v \div 10), DecimalDigits[(v % 10) + 1])

BigIntToString(v) == IF v < 0 THEN <<"-">> \o NatToString(-v) ELSE NatToString(v)

MapToString(s) == [x \in DOMAIN s |-> BigIntToString(s[x])]

-----------------------------------------------------------------------------
(* processSingleTestCase *)

Absent == [present |-> FALSE, base |-> <<>>, value |-> <<>>]
Entry(b, v) == [present |-> TRUE, base |-> b, value |-> v]

\* tc[String(x)] is truthy
HasEntry(t, x) == x \in DOMAIN t.entries /\ t.entries[x].present

RootsDecoded(rs) == [ok |-> TRUE, err |-> "", roots |-> rs]
RootsThrown(e)   == [ok |-> FALSE, err |-> e, roots |-> <<>>]

\* The scan of keys 1..n (lines 66-75) from key x with the roots pushed so far.
RECURSIVE DecodeEntries(_, _, _, _)
DecodeEntries(t, x, n, rs) ==
  IF x > n THEN RootsDecoded(rs)
  ELSE IF HasEntry(t, x)
       THEN LET d == decodeBigInt(t.entries[x].base, t.entries[x].value)
            IN  IF ~d.ok THEN RootsThrown(d.err)
                ELSE DecodeEntries(t, x + 1, n, Append(rs, d.val))
       ELSE DecodeEntries(t, x + 1, n, rs)

NoRecord == [n |-> 0, k |-> 0, degree |-> 0, usedRoots |-> <<>>,
             coeffs_low_to_high |-> <<>>, coeffs_high_to_low |-> <<>>,
             constant_c |-> <<>>]

CaseReturned(rec) == [ok |-> TRUE, err |-> "", rec |-> rec]
CaseThrown(e)     == [ok |-> FALSE, err |-> e, rec |-> NoRecord]

\* Mutant: only as many present entries as the degree asks for are decoded.
RECURSIVE DecodeNeeded(_, _, _, _, _)
DecodeNeeded(t, x, n, rs, need) ==
  IF x > n \/ Len(rs) >= need THEN RootsDecoded(rs)
  ELSE IF HasEntry(t, x)
       THEN LET d == decodeBigInt(t.entries[x].base, t.entries[x].value)
            IN  IF ~d.ok THEN RootsThrown(d.err)
                ELSE DecodeNeeded(t, x + 1, n, Append(rs, d.val), need)
       ELSE DecodeNeeded(t, x + 1, n, rs, need)

processSingleTestCaseLazy(t, idx) ==
  IF t.n.type # "number" \/ t.k.type # "number" THEN CaseThrown("InvalidKeys")
  ELSE LET degree == t.k.num - 1
           dec    == DecodeNeeded(t, 1, t.n.num, <<>>, degree)
       IN  IF ~dec.ok THEN CaseThrown(dec.err)
           ELSE IF Len(dec.roots) < degree THEN CaseThrown("InsufficientRoots")
           ELSE LET usedRoots       == Slice(dec.roots, 0, degree)
                    coeffsLowToHigh == buildPolynomialFromRoots(usedRoots)
                    coeffsHighToLow == Reverse(coeffsLowToHigh)
                IN  CaseReturned([n |-> t.n.num, k |-> t.k.num, degree |-> degree,
                                  usedRoots |-> MapToString(usedRoots),
                                  coeffs_low_to_high |-> MapToString(coeffsLowToHigh),
                                  coeffs_high_to_low |-> MapToString(coeffsHighToLow),
                                  constant_c |-> BigIntToString(coeffsLowToHigh[1])])

processSingleTestCase(t, idx) ==
  IF t.n.type # "number" \/ t.k.type # "number" THEN CaseThrown("InvalidKeys")
  ELSE LET degree == t.k.num - 1
           dec    == DecodeEntries(t, 1, t.n.num, <<>>)
       IN  IF ~dec.ok THEN CaseThrown(dec.err)
           ELSE IF Len(dec.roots) < degree THEN CaseThrown("InsufficientRoots")
           ELSE LET usedRoots       == Slice(dec.roots, 0, degree)
                    coeffsLowToHigh == buildPolynomialFromRoots(usedRoots)
                    coeffsHighToLow == Reverse(coeffsLowToHigh)
                IN  CaseReturned([n |-> t.n.num, k |-> t.k.num, degree |-> degree,
                                  usedRoots |-> MapToString(usedRoots),
                                  coeffs_low_to_high |-> MapToString(coeffsLowToHigh),
                                  coeffs_high_to_low |-> MapToString(coeffsHighToLow),
                                  constant_c |-> BigIntToString(coeffsLowToHigh[1])])

-----------------------------------------------------------------------------
(* Inputs *)

\* Base specifiers as parseInt sees them: the text of the value (a number is
\* first converted to its text, 10.5 to "10.5").
BaseSpecs ==
  { <<"2">>, <<"3", "6">>, <<"1", "6">>, <<"1", "0">>,
    <<"1">>, <<"3", "7">>, <<"0">>, <<"-", "2">>,
    <<"1", "0", ".", "5">>, <<"1", "6", "a", "b", "c">>, <<"a", "b", "c">>, <<>> }

ValueChars == {"0", "1", "2", "f", "F", "z", "+", "-", " ", "!", KELVIN}

ValueStrings == SeqsUpTo(ValueChars, MaxLen)

RootVals == {-3, 0, 2, 3, 4, 5}

RootLists == SeqsUpTo(RootVals, MaxRoots)

GoodEntries == { Entry(<<"1", "0">>, <<"4">>), Entry(<<"1", "0">>, <<"5">>),
                 Entry(<<"1", "6">>, <<"-", "f">>) }

BadEntries == { Entry(<<"3", "7">>, <<"1">>), Entry(<<"1", "0">>, <<"!">>),
                Entry(<<"1", "0">>, <<>>) }

KeyValues(max) == {Undefined} \cup {JSNum(v) : v \in 0..max}

TestCasesOver(ns, ks, slots, entrySet) ==
  [n : ns, k : ks, entries : [1..slots -> entrySet]]

TestCases ==
  TestCasesOver(KeyValues(MaxN), KeyValues(MaxK), MaxN,
                {Absent} \cup GoodEntries \cup BadEntries)

\* The cases of a batch: bad keys, a decode error, too few roots, a success.
BatchCases ==
  TestCasesOver({Undefined, JSNum(1)}, {JSNum(1), JSNum(2), JSNum(3)}, 1,
                {Absent, Entry(<<"1", "0">>, <<"4">>), Entry(<<"1", "0">>, <<"!">>)})

TestLists == SeqsUpTo(BatchCases, MaxTests) \ {<<>>}

-----------------------------------------------------------------------------
(* The state of a function that is not running *)

Pending == Thrown("pending")
CasePending == CaseThrown("pending")
NoCase == [n |-> Undefined, k |-> Undefined, entries |-> <<>>]

DecodeIdle ==
  /\ baseStr = <<>> /\ valueStr = <<>> /\ decoded = Pending /\ decPc = "idle"

BuildIdle ==
  /\ roots = <<>> /\ roots0 = <<>> /\ coeffs = <<>> /\ rootIdx = 0 /\ polyPc = "idle"

CaseIdle ==
  /\ tc = NoCase /\ caseOut = CasePending /\ casePc = "idle"

MainIdle ==
  /\ tests = <<>> /\ i = 0 /\ out = <<>> /\ attempted = <<>> /\ mainPc = "idle"

-----------------------------------------------------------------------------
(* decodeBigInt applied to one pair of arguments *)

InitDecode ==
  /\ baseStr \in BaseSpecs
  /\ valueStr \in ValueStrings
  /\ decoded = Pending
  /\ decPc = "call"
  /\ BuildIdle /\ CaseIdle /\ MainIdle

Decode ==
  /\ decPc = "call"
  /\ decoded' = decodeBigInt(baseStr, valueStr)
  /\ decPc' = "done"
  /\ UNCHANGED <<baseStr, valueStr, polyVars, caseVars, mainVars>>

NextDecode == Decode

SpecDecode == InitDecode /\ [][NextDecode]_vars

-----------------------------------------------------------------------------
(* buildPolynomialFromRoots, one pass of the outer loop per step *)

InitBuild ==
  /\ roots \in RootLists
  /\ roots0 = roots
  /\ coeffs = <<>>
  /\ rootIdx = 0
  /\ polyPc = "call"
  /\ DecodeIdle /\ CaseIdle /\ MainIdle

\* line 44: let coeffs = [1n]
BuildEnter ==
  /\ polyPc = "call"
  /\ coeffs' = <<1>>
  /\ rootIdx' = 0
  /\ polyPc' = "loop"
  /\ UNCHANGED <<roots, roots0, decVars, caseVars, mainVars>>

\* lines 45-53: one root of the for-of loop
BuildStep ==
  /\ polyPc = "loop"
  /\ rootIdx < Len(roots)
  /\ coeffs' = MultiplyByFactor(coeffs, roots[rootIdx + 1])
  /\ rootIdx' = rootIdx + 1
  /\ UNCHANGED <<roots, roots0, polyPc, decVars, caseVars, mainVars>>

\* line 54: return coeffs
BuildReturn ==
  /\ polyPc = "loop"
  /\ rootIdx >= Len(roots)
  /\ polyPc' = "done"
  /\ UNCHANGED <<roots, roots0, coeffs, rootIdx, decVars, caseVars, mainVars>>

NextBuild == BuildEnter \/ BuildStep \/ BuildReturn

SpecBuild == InitBuild /\ [][NextBuild]_vars

-----------------------------------------------------------------------------
(* processSingleTestCase applied to one test case *)

InitCase ==
  /\ tc \in TestCases
  /\ caseOut = CasePending
  /\ casePc = "call"
  /\ DecodeIdle /\ BuildIdle /\ MainIdle

ProcessCase ==
  /\ casePc = "call"
  /\ caseOut' = processSingleTestCase(tc, 0)
  /\ casePc' = "done"
  /\ UNCHANGED <<tc, decVars, polyVars, mainVars>>

NextCase == ProcessCase

SpecCase == InitCase /\ [][NextCase]_vars

-----------------------------------------------------------------------------
(* main: the loop over doc.testcases and the write of the output document *)

\* 'testcase' + (idx + 1)
TestcaseKey(idx) == <<"testcase">> \o NatToString(idx + 1)

InitMain ==
  /\ tests \in TestLists
  /\ i = 0
  /\ out = <<>>
  /\ attempted = <<>>
  /\ mainPc = "loop"
  /\ DecodeIdle /\ BuildIdle /\ CaseIdle

\* Mutant: the catch block leaves the loop.
MainIterationAbort ==
  /\ mainPc = "loop"
  /\ i < Len(tests)
  /\ LET r == processSingleTestCase(tests[i + 1], i)
     IN  /\ attempted' = Append(attempted, i + 1)
         /\ IF r.ok
            THEN /\ out' = [key \in DOMAIN out \cup {TestcaseKey(i)} |->
                              IF key = TestcaseKey(i) THEN r.rec ELSE out[key]]
                 /\ i' = i + 1
            ELSE /\ out' = out
                 /\ i' = Len(tests)
  /\ UNCHANGED <<tests, mainPc, decVars, polyVars, caseVars>>

\* lines 120-129: one pass of the loop, the try and its catch; attempted
\* is the sequence of "Processing Test Case <i+1>" lines written to stdout.
MainIteration ==
  /\ mainPc = "loop"
  /\ i < Len(tests)
  /\ LET r == processSingleTestCase(tests[i + 1], i)
     IN  /\ attempted' = Append(attempted, i + 1)
         /\ IF r.ok
            THEN out' = [key \in DOMAIN out \cup {TestcaseKey(i)} |->
                           IF key = TestcaseKey(i) THEN r.rec ELSE out[key]]
            ELSE out' = out
  /\ i' = i + 1
  /\ UNCHANGED <<tests, mainPc, decVars, polyVars, caseVars>>

\* lines 131-133: the loop has ended, the document is written
MainWrite ==
  /\ mainPc = "loop"
  /\ i >= Len(tests)
  /\ mainPc' = "written"
  /\ UNCHANGED <<tests, i, out, attempted, decVars, polyVars, caseVars>>

NextMain == MainIteration \/ MainWrite

SpecMain == InitMain /\ [][NextMain]_vars

-----------------------------------------------------------------------------
(* Reference notions the claims are stated in *)

\* The base specifier is the text of an integer: an optional sign and digits.
IsIntegerText(b) ==
  LET body == IF b # <<>> /\ Head(b) \in {"+", "-"} THEN Tail(b) ELSE b
  IN  body # <<>> /\ \A x \in DOMAIN body : body[x] \in Range(DecimalDigits)

IntegerOf(b) ==
  LET body == IF Head(b) \in {"+", "-"} THEN Tail(b) ELSE b
  IN  IF Head(b) = "-" THEN -DecimalValue(body) ELSE DecimalValue(body)

IsValidBaseSpec(b) == IsIntegerText(b) /\ IntegerOf(b) \in 2..36

Alphabet36 == DecimalDigits \o LowerLetters

IsAlnum(ch) == ch \in Range(DecimalDigits) \cup Range(LowerLetters) \cup Range(UpperLetters)

\* The digit value of a character of [0-9a-zA-Z].
RefDigit(ch) ==
  IF ch \in Range(UpperLetters) THEN 9 + IndexOf(UpperLetters, ch)
  ELSE IndexOf(Alphabet36, ch) - 1

IsDigitString(s, b) ==
  s # <<>> /\ \A x \in DOMAIN s : IsAlnum(s[x]) /\ RefDigit(s[x]) < b

RECURSIVE Pow(_, _)
Pow(b, e) == IF e = 0 THEN 1 ELSE b * Pow(b, e - 1)

\* sum over positions x..Len(s) of d_x * b^(L - x)
RECURSIVE PositionalSum(_, _, _)
PositionalSum(s, b, x) ==
  IF x > Len(s) THEN 0
  ELSE RefDigit(s[x]) * Pow(b, Len(s) - x) + PositionalSum(s, b, x + 1)

PositionalValue(s, b) == PositionalSum(s, b, 1)

RECURSIVE ProductOf(_, _)
ProductOf(rs, S) ==
  IF S = {} THEN 1
  ELSE LET x == CHOOSE y \in S : TRUE IN rs[x] * ProductOf(rs, S \ {x})

RECURSIVE SumOfProducts(_, _)
SumOfProducts(rs, Ss) ==
  IF Ss = {} THEN 0
  ELSE LET S == CHOOSE T \in Ss : TRUE IN ProductOf(rs, S) + SumOfProducts(rs, Ss \ {S})

\* The elementary symmetric sum of degree d of the roots.
ElemSym(rs, d) ==
  SumOfProducts(rs, {S \in SUBSET (DOMAIN rs) : Cardinality(S) = d})

Permutations(rs) ==
  LET m == Len(rs)
  IN  { [x \in 1..m |-> rs[p[x]]] :
          p \in {q \in [1..m -> 1..m] : \A a, b \in 1..m : q[a] = q[b] => a = b} }

-----------------------------------------------------------------------------
(* Claims about decodeBigInt, under SpecDecode *)

\* C1 (as stated): every base specifier that is not an integer in [2, 36] is
\* rejected with the invalid-base error, and an integer in [2, 36] never is.
C1_InvalidBaseRejected ==
  decPc = "done" =>
    /\ ~IsValidBaseSpec(baseStr) => decoded = Thrown("InvalidBase")
    /\ IsValidBaseSpec(baseStr) => decoded.err # "InvalidBase"

\* C3: for a base in [2, 36] and a digit string of [0-9a-zA-Z] whose digit
\* values are all below the base, the decoded value is the positional value
\* sum of d_x * b^(L - x), negated after a leading "-"; base 16, "-ff" is -255.
C3_PositionalValue ==
  decPc = "done" /\ IsValidBaseSpec(baseStr) =>
    LET b == IntegerOf(baseStr)
    IN  /\ IsDigitString(valueStr, b) =>
             decoded = Returned(PositionalValue(valueStr, b))
        /\ (valueStr # <<>> /\ Head(valueStr) = "-" /\ IsDigitString(Tail(valueStr), b)) =>
             decoded = Returned(-PositionalValue(Tail(valueStr), b))
        /\ (baseStr = <<"1", "6">> /\ valueStr = <<"-", "f", "f">>) =>
             decoded = Returned(-255)

C3_Witness ==
  /\ decPc = "done"
  /\ baseStr = <<"1", "6">>
  /\ valueStr = <<"-", "f", "f">>
  /\ decoded = Returned(-255)

\* The digit string left after trimming and removing one leading sign.
SignStripped(v) ==
  LET t == Trim(v)
  IN  IF t # <<>> /\ Head(t) \in {"+", "-"} THEN Tail(t) ELSE t

FirstOffending(s, b) ==
  s[CHOOSE x \in DOMAIN s :
      /\ ~(IsAlnum(s[x]) /\ RefDigit(s[x]) < b)
      /\ \A y \in 1..(x - 1) : IsAlnum(s[y]) /\ RefDigit(s[y]) < b]

\* C4 (as stated): with a valid base a value is returned only for a non-empty
\* sign-stripped string of [0-9a-zA-Z] digits below the base; an empty one
\* fails with an empty-value error, and otherwise the first offending
\* character fails as an invalid character or as a digit out of range.
C4_OnlyDigitStringsDecode ==
  decPc = "done" /\ IsValidBaseSpec(baseStr) =>
    LET b    == IntegerOf(baseStr)
        body == SignStripped(valueStr)
    IN  /\ decoded.ok => IsDigitString(body, b)
        /\ body = <<>> => decoded.err \in {"EmptyValue", "OnlySign"}
        /\ (body # <<>> /\ ~IsDigitString(body, b)) =>
             decoded.err = IF IsAlnum(FirstOffending(body, b))
                           THEN "DigitOutOfRange" ELSE "InvalidDigitChar"

\* C5 (as stated): for every string s that decodeBigInt accepts, "-" + s is
\* accepted and decodes to the negation.
C5_SignSymmetryAnyAccepted ==
  decPc = "done" /\ decoded.ok =>
    decodeBigInt(baseStr, <<"-">> \o valueStr) = Returned(-decoded.val)

\* C5 (amended): for every accepted string s that does not start with a sign
\* or with white space, "-" + s is accepted and decodes to the negation.
C5_SignSymmetryUnsigned ==
  (/\ decPc = "done" /\ decoded.ok
   /\ Head(valueStr) \notin {"+", "-"}
   /\ ~IsWhiteSpace(Head(valueStr))) =>
    decodeBigInt(baseStr, <<"-">> \o valueStr) = Returned(-decoded.val)

C5_Witness ==
  /\ decPc = "done"
  /\ baseStr = <<"3", "6">>
  /\ valueStr = <<"z", "F", " ">>
  /\ decoded = Returned(1275)
  /\ decodeBigInt(baseStr, <<"-">> \o valueStr) = Returned(-1275)

-----------------------------------------------------------------------------
(* Claims about buildPolynomialFromRoots, under SpecBuild *)

\* C2: the returned sequence is the low-to-high coefficient sequence of the
\* product of (x - r): element j is (-1)^(m-j) times the elementary symmetric
\* sum of degree m - j of the roots; [] gives [1], [4,5] gives [20,-9,1] and
\* [2,3,5] gives [-30,31,-10,1].
C2_VietaCoefficients ==
  polyPc = "done" =>
    LET m == Len(roots)
    IN  /\ Len(coeffs) = m + 1
        /\ \A j \in 0..m : coeffs[j + 1] = Pow(-1, m - j) * ElemSym(roots, m - j)
        /\ roots = <<>> => coeffs = <<1>>
        /\ roots = <<4, 5>> => coeffs = <<20, -9, 1>>
        /\ roots = <<2, 3, 5>> => coeffs = <<-30, 31, -10, 1>>

C2_Witness ==
  /\ polyPc = "done"
  /\ roots = <<2, 3, 5>>
  /\ coeffs = <<-30, 31, -10, 1>>

\* C9: after the first rootIdx roots the coefficient sequence has length
\* rootIdx + 1 and its last element is 1; the returned sequence has length
\* m + 1 and leading coefficient 1.
C9_MonicLoopInvariant ==
  polyPc \in {"loop", "done"} =>
    /\ Len(coeffs) = rootIdx + 1
    /\ coeffs[Len(coeffs)] = 1
    /\ polyPc = "done" => Len(coeffs) = Len(roots) + 1

C9_Witness ==
  /\ polyPc = "loop"
  /\ Len(roots) = 3
  /\ rootIdx = 2
  /\ Len(coeffs) = 3
  /\ coeffs[3] = 1
  /\ coeffs[1] # 1

\* C10: every permutation of the root list gives the coefficient sequence
\* the call returned, and the call leaves its argument as it was.
C10_OrderIndependent ==
  polyPc = "done" =>
    /\ roots = roots0
    /\ \A p \in Permutations(roots0) : buildPolynomialFromRoots(p) = coeffs

C10_Witness ==
  /\ polyPc = "done"
  /\ roots = <<5, -3, 2>>
  /\ coeffs = buildPolynomialFromRoots(<<2, 5, -3>>)
  /\ MultiplyByFactor(<<1>>, 5) # MultiplyByFactor(<<1>>, 2)

-----------------------------------------------------------------------------
(* Claims about processSingleTestCase, under SpecCase *)

NumericKeys(t) == t.n.type = "number" /\ t.k.type = "number"

\* The keys of 1..n under which the case has an entry.
Present(t) == {x \in 1..t.n.num : HasEntry(t, x)}

\* The position of present key x in the ascending scan.
Rank(t, x) == Cardinality({y \in Present(t) : y <= x})

KeyOfRank(t, r) == CHOOSE x \in Present(t) : Rank(t, x) = r

DecodeOf(t, x) == decodeBigInt(t.entries[x].base, t.entries[x].value)

Malformed(t) == {x \in Present(t) : ~DecodeOf(t, x).ok}

FirstMalformed(t) == CHOOSE x \in Malformed(t) : \A y \in Malformed(t) : x <= y

\* The case without the present entries after the first `count` of them.
WithoutExtras(t, count) ==
  [t EXCEPT !.entries =
     [x \in DOMAIN @ |-> IF x \in Present(t) /\ Rank(t, x) > count THEN Absent ELSE @[x]]]

C8_RecordConsistent ==
  (casePc = "done" /\ NumericKeys(tc)) =>
    LET degree == tc.k.num - 1
    IN  /\ caseOut.ok =>
             /\ caseOut.rec.degree = degree
             /\ degree >= 0
             /\ Len(caseOut.rec.usedRoots) = degree
             /\ Len(caseOut.rec.coeffs_low_to_high) = degree + 1
        /\ Cardinality(Present(tc)) < degree =>
             /\ ~caseOut.ok
             /\ Malformed(tc) = {} => caseOut.err = "InsufficientRoots"

-----------------------------------------------------------------------------
(* Claims about main, under SpecMain *)

Succeeds(idx) == processSingleTestCase(tests[idx + 1], idx).ok

\* C7: the cases are attempted in index order whatever happened to earlier
\* ones, a failed case stops no later case, and the output document has the
\* key 'testcase<i+1>' exactly for the cases that succeeded, holding that
\* case's record; when the document is written every case has been attempted.
C7_FailureIsolation ==
  mainPc \in {"loop", "written"} =>
    /\ attempted = [x \in 1..i |-> x]
    /\ DOMAIN out = {TestcaseKey(idx) : idx \in {j \in 0..(i - 1) : Succeeds(j)}}
    /\ \A idx \in 0..(i - 1) :
         Succeeds(idx) => out[TestcaseKey(idx)] = processSingleTestCase(tests[idx + 1], idx).rec
    /\ mainPc = "written" => i = Len(tests)

C7_Witness ==
  /\ mainPc = "written"
  /\ Len(tests) = 2
  /\ ~Succeeds(0)
  /\ Succeeds(1)
  /\ attempted = <<1, 2>>
  /\ DOMAIN out = {<<"testcase", "2">>}

====
